---------------------------- MODULE Spec2Model ----------------------------
(***************************************************************************)
(* A model of ascii-raytracer.cpp: the vector algebra, the intersection    *)
(* engine (scene_intersect), the shading recursion (cast_ray), the frame   *)
(* generator (render) with its OpenMP pixel pass, the display step         *)
(* (print_colored_square) and the main loop (animate, render).             *)
(*                                                                         *)
(* Numbers.  The program computes in IEEE float.  The model computes in    *)
(* fixed point: the integer a stands for the real a / Scale, Scale =       *)
(* 40000, so every decimal constant of the source with at most three       *)
(* decimals is a whole number of the grid (Milli) and the self-            *)
(* intersection offset .001 is the integer 40.  Products and quotients are *)
(* rounded to the grid, as the float operations round to theirs; they are  *)
(* computed in limbs so that no intermediate value leaves 32 bits.         *)
(* Conversions from float to int, which truncate toward zero, are          *)
(* modelled by Trunc and IntHalf, never as the identity.                   *)
(*                                                                         *)
(* The grid is coarser than float: a color of the model agrees with the    *)
(* program's to about two decimals on the plane and on the first hit of a  *)
(* sphere, and a bounce that leaves a sphere at a grazing angle may meet   *)
(* the same sphere again where the program's does not.  The properties     *)
(* below are about the control flow, the comparisons and the conversions   *)
(* of the code, which the grid keeps; none rests on a particular color.    *)
(*                                                                         *)
(* Four specifications share the variables: Spec (main's loop and the      *)
(* parallel pixel pass, on a small frame), SpecCast (cast_ray on primary   *)
(* rays of the 80 x 40 frame), SpecScan (scene_intersect statement by      *)
(* statement) and SpecRefract (refract on unit vectors).                   *)
(***************************************************************************)
EXTENDS Integers, Sequences, FiniteSets, TLC

\* ------------------------------------------------------------------------
\* Fixed-point arithmetic standing for the float operations of the source.
\* ------------------------------------------------------------------------

\* The grid of the fixed-point numbers: a float f is the integer f * Scale.
Scale == 40000

\* The square root of Scale, and the base of the long division.
Root == 200

\* the float m / 1000
Milli(m) == m * (Scale \div 1000)

Abs(a) == IF a < 0 THEN -a ELSE a

Max(a, b) == IF a > b THEN a ELSE b

Min(a, b) == IF a < b THEN a ELSE b

\* float * float: a * b / Scale rounded to the grid, by limbs of Scale.
Mul(a, b) ==
  LET a1 == a \div Scale
      a0 == a % Scale
      b1 == b \div Scale
      b0 == b % Scale
  IN  a1 * b1 * Scale + a1 * b0 + a0 * b1 + (a0 * b0 + Scale \div 2) \div Scale

\* a * Scale / b for b > 0, by long division in base Root
\* (b * Root < 2^31).
DivPos(a, b) ==
  LET t1 == (a % b) * Root
      t2 == (t1 % b) * Root
  IN  (a \div b) * Scale + (t1 \div b) * Root + t2 \div b

\* float / float
Div(a, b) == IF b > 0 THEN DivPos(a, b) ELSE DivPos(-a, -b)

RECURSIVE SqrtIter(_, _)
SqrtIter(n, x) ==
  LET y == (x + n \div x) \div 2
  IN  IF y >= x THEN x ELSE SqrtIter(n, y)

\* floor of the square root of the integer n >= 0 (Newton's iteration).
ISqrt(n) ==
  IF n < 2 THEN n
  ELSE IF n < 10000 THEN SqrtIter(n, 100)
  ELSE IF n < 1000000 THEN SqrtIter(n, 1000)
  ELSE IF n < 100000000 THEN SqrtIter(n, 10000)
  ELSE SqrtIter(n, 46341)

RECURSIVE SqrtNewton(_, _)
SqrtNewton(v, x) ==
  LET y == (x + DivPos(v, x)) \div 2
  IN  IF y >= x THEN x ELSE SqrtNewton(v, y)

\* std::sqrt of a float v >= 0: the root on the grid, by Newton's iteration
\* from Root * ISqrt(v) + Root, which is above it.
Sqrt(v) == IF v = 0 THEN 0 ELSE SqrtNewton(v, Root * ISqrt(v) + Root)

\* (int) f : the conversion of a float to int truncates toward zero.
Trunc(a) == IF a >= 0 THEN a \div Scale ELSE -((-a) \div Scale)

RECURSIVE PowInt(_, _)
\* std::pow(b, e) for a float b >= 0 and a whole exponent e >= 0.
PowInt(b, e) ==
  IF e = 0 THEN Scale
  ELSE LET h == PowInt(b, e \div 2)
           sq == Mul(h, h)
       IN  IF e % 2 = 0 THEN sq ELSE Mul(sq, b)

\* ------------------------------------------------------------------------
\* struct vec3
\* ------------------------------------------------------------------------

VScale(v, f) == <<Mul(v[1], f), Mul(v[2], f), Mul(v[3], f)>>

Dot(v, w) == Mul(v[1], w[1]) + Mul(v[2], w[2]) + Mul(v[3], w[3])

VAdd(v, w) == <<v[1] + w[1], v[2] + w[2], v[3] + w[3]>>

VSub(v, w) == <<v[1] - w[1], v[2] - w[2], v[3] - w[3]>>

VNeg(v) == <<-v[1], -v[2], -v[3]>>

Norm(v) == Sqrt(Dot(v, v))

\* (*this) * (1.f / norm()).  A float keeps its relative precision in the
\* reciprocal; on the grid that is the quotient of each component by the norm.
Normalized(v) ==
  LET n == Norm(v)
  IN  <<Div(v[1], n), Div(v[2], n), Div(v[3], n)>>

\* ------------------------------------------------------------------------
\* Materials, spheres, lights
\* ------------------------------------------------------------------------

Material(ri, alb, col, ex) ==
  [refractive_index |-> ri, albedo |-> alb, diffuse_color |-> col,
   specular_exponent |-> ex]

\* struct Material's default member initialisers
DefaultMaterial ==
  Material(Milli(1000), <<Milli(2000), 0, 0, 0>>, <<0, 0, 0>>, 0)

ivory ==
  Material(Milli(1000), <<Milli(900), Milli(500), Milli(100), 0>>,
           <<Milli(400), Milli(400), Milli(300)>>, 50)

glass ==
  Material(Milli(1500), <<0, Milli(900), Milli(100), Milli(800)>>,
           <<Milli(600), Milli(700), Milli(800)>>, 125)

red_rubber ==
  Material(Milli(1000), <<Milli(1400), Milli(300), 0, 0>>,
           <<Milli(300), Milli(100), Milli(100)>>, 10)

mirror ==
  Material(Milli(1000), <<0, Milli(16000), Milli(800), 0>>,
           <<Milli(1000), Milli(1000), Milli(1000)>>, 1425)

Sphere(c, r, m) == [center |-> c, radius |-> r, material |-> m]

\* Sphere spheres[] as the program starts
InitSpheres ==
  << Sphere(<<Milli(-3000), 0, Milli(-16000)>>, Milli(2000), ivory),
     Sphere(<<Milli(-1000), Milli(-1500), Milli(-12000)>>, Milli(2000), glass),
     Sphere(<<Milli(1500), Milli(-500), Milli(-18000)>>, Milli(3000),
            red_rubber),
     Sphere(<<Milli(7000), Milli(5000), Milli(-18000)>>, Milli(4000), mirror) >>

lights ==
  << <<Milli(-20000), Milli(20000), Milli(20000)>>,
     <<Milli(30000), Milli(50000), Milli(-25000)>>,
     <<Milli(30000), Milli(20000), Milli(30000)>> >>

\* ------------------------------------------------------------------------
\* reflect, refract
\* ------------------------------------------------------------------------

reflect(I, N) == VSub(I, VScale(VScale(N, 2 * Scale), Dot(I, N)))

\* k of refract's last activation: negative = total internal reflection.
RECURSIVE RefractK(_, _, _, _)
RefractK(I, N, eta_t, eta_i) ==
  LET cosi == -Max(-Scale, Min(Scale, Dot(I, N)))
      eta == Div(eta_i, eta_t)
  IN  IF cosi < 0 THEN RefractK(I, VNeg(N), eta_i, eta_t)
      ELSE Scale - Mul(Mul(eta, eta), Scale - Mul(cosi, cosi))

\* A variant of refract: total internal reflection keeps the incident
\* direction.
RECURSIVE RefractKeepsIncident(_, _, _, _)
RefractKeepsIncident(I, N, eta_t, eta_i) ==
  LET cosi == -Max(-Scale, Min(Scale, Dot(I, N)))
      eta == Div(eta_i, eta_t)
      k == Scale - Mul(Mul(eta, eta), Scale - Mul(cosi, cosi))
  IN  IF cosi < 0 THEN RefractKeepsIncident(I, VNeg(N), eta_i, eta_t)
      ELSE IF k < 0 THEN I
      ELSE VAdd(VScale(I, eta), VScale(N, Mul(eta, cosi) - Sqrt(k)))

RECURSIVE refract(_, _, _, _)
refract(I, N, eta_t, eta_i) ==
  LET cosi == -Max(-Scale, Min(Scale, Dot(I, N)))
      eta == Div(eta_i, eta_t)
      k == Scale - Mul(Mul(eta, eta), Scale - Mul(cosi, cosi))
  IN  IF cosi < 0 THEN refract(I, VNeg(N), eta_i, eta_t)
      ELSE IF k < 0 THEN <<Scale, 0, 0>>
      ELSE VAdd(VScale(I, eta), VScale(N, Mul(eta, cosi) - Sqrt(k)))

\* ------------------------------------------------------------------------
\* ray_sphere_intersect, scene_intersect
\* ------------------------------------------------------------------------

ray_sphere_intersect(orig, dir, s) ==
  LET L == VSub(s.center, orig)
      tca == Dot(L, dir)
      d2 == Dot(L, L) - Mul(tca, tca)
      r2 == Mul(s.radius, s.radius)
      thc == Sqrt(r2 - d2)
      t0 == tca - thc
      t1 == tca + thc
  IN  IF d2 > r2 THEN [intersection |-> FALSE, d |-> 0]
      ELSE IF t0 > Milli(1) THEN [intersection |-> TRUE, d |-> t0]
      ELSE IF t1 > Milli(1) THEN [intersection |-> TRUE, d |-> t1]
      ELSE [intersection |-> FALSE, d |-> 0]

\* float nearest_dist = 1e10 (line 99).  The grid ends below 1e10: the model
\* starts from 50000, which like 1e10 is above every distance a ray of the
\* model reaches and above the 1000 that scene_intersect's return tests.
NearestInit == Milli(50000000)

\* the locals of scene_intersect as declared (lines 96-99)
ScanStart ==
  [nearest_dist |-> NearestInit, pt |-> <<0, 0, 0>>, N |-> <<0, 0, 0>>,
   material |-> DefaultMaterial]

\* int(.5 * f + off) for a float f and a whole offset off.  The literal .5
\* makes the sum a double, which holds it exactly for every f of the grid;
\* the conversion to int truncates toward zero.
IntHalf(f, off) ==
  LET a == f + 2 * off * Scale
  IN  IF a >= 0 THEN a \div (2 * Scale) ELSE -((-a) \div (2 * Scale))

\* A variant of PlaneShade: the column is converted without the offset 1000.
PlaneShadeNoOffset(pt) ==
  IF (IntHalf(pt[1], 0) + IntHalf(pt[3], 0)) % 2 = 1
  THEN <<Milli(300), Milli(300), Milli(300)>>
  ELSE <<Milli(300), Milli(200), Milli(100)>>

\* A variant of PlaneShade: the row does not enter the sum.
PlaneShadeByColumn(pt) ==
  IF IntHalf(pt[1], 1000) % 2 = 1
  THEN <<Milli(300), Milli(300), Milli(300)>>
  ELSE <<Milli(300), Milli(200), Milli(100)>>

\* the checkerboard's shade at an accepted hit point (lines 110-112)
PlaneShade(pt) ==
  IF (IntHalf(pt[1], 1000) + IntHalf(pt[3], 0)) % 2 = 1
  THEN <<Milli(300), Milli(300), Milli(300)>>
  ELSE <<Milli(300), Milli(200), Milli(100)>>

\* whether the plane is hit and the hit accepted (lines 100-106)
PlaneAccepted(st, orig, dir) ==
  /\ Abs(dir[2]) > Milli(1)
  /\ LET d == Div(-(orig[2] + Milli(4000)), dir[2])
         p == VAdd(orig, VScale(dir, d))
     IN  /\ d > Milli(1)
         /\ d < st.nearest_dist
         /\ Abs(p[1]) < Milli(10000)
         /\ p[3] < Milli(-10000)
         /\ p[3] > Milli(-30000)

\* the checkerboard test (lines 100-114)
PlaneTest(st, orig, dir) ==
  IF PlaneAccepted(st, orig, dir)
  THEN LET d == Div(-(orig[2] + Milli(4000)), dir[2])
           p == VAdd(orig, VScale(dir, d))
       IN  [nearest_dist |-> d, pt |-> p, N |-> <<0, Scale, 0>>,
            material |-> [st.material EXCEPT !.diffuse_color = PlaneShade(p)]]
  ELSE st

\* A variant of SphereTest: an equal distance does not replace the hit.
SphereTestStrict(st, orig, dir, s) ==
  LET c == ray_sphere_intersect(orig, dir, s)
  IN  IF ~c.intersection \/ c.d >= st.nearest_dist THEN st
      ELSE LET p == VAdd(orig, VScale(dir, c.d))
           IN  [nearest_dist |-> c.d, pt |-> p,
                N |-> Normalized(VSub(p, s.center)), material |-> s.material]

\* one turn of the loop over the spheres (lines 116-124)
SphereTest(st, orig, dir, s) ==
  LET c == ray_sphere_intersect(orig, dir, s)
  IN  IF ~c.intersection \/ c.d > st.nearest_dist THEN st
      ELSE LET p == VAdd(orig, VScale(dir, c.d))
           IN  [nearest_dist |-> c.d, pt |-> p,
                N |-> Normalized(VSub(p, s.center)), material |-> s.material]

RECURSIVE SphereScan(_, _, _, _, _)
\* the loop over spheres[i..] (line 116)
SphereScan(st, orig, dir, sph, i) ==
  IF i > Len(sph) THEN st
  ELSE SphereScan(SphereTest(st, orig, dir, sph[i]), orig, dir, sph, i + 1)

\* the tuple scene_intersect returns (line 125)
ScanResult(st) ==
  [hit |-> st.nearest_dist < Milli(1000000), pt |-> st.pt, N |-> st.N,
   material |-> st.material]

scene_intersect(sph, orig, dir) ==
  ScanResult(SphereScan(PlaneTest(ScanStart, orig, dir), orig, dir, sph, 1))

\* ------------------------------------------------------------------------
\* cast_ray
\* ------------------------------------------------------------------------

\* the background color (line 131)
Background == <<Milli(200), Milli(700), Milli(800)>>

\* A variant of Terminal: the recursion goes one level deeper.
TerminalDeeper(depth, hit) == depth > 5 \/ ~hit

\* A variant of Terminal: the recursion ends one level sooner.
TerminalSooner(depth, hit) == depth >= 4 \/ ~hit

\* the test that ends the recursion (line 130)
Terminal(depth, hit) == depth > 4 \/ ~hit

\* A variant of Occluded: a refracting occluder casts no shadow.
OccludedUnlessGlass(sh, point, light) ==
  /\ sh.hit
  /\ sh.material.albedo[4] = 0
  /\ Norm(VSub(sh.pt, point)) < Norm(VSub(light, point))

\* the test that puts a point in a light's shadow (line 144)
Occluded(sh, point, light) ==
  sh.hit /\ Norm(VSub(sh.pt, point)) < Norm(VSub(light, point))

\* one turn of the loop over the lights (lines 141-149): what the light adds
LightStep(sph, point, N, dir, material, light) ==
  LET light_dir == Normalized(VSub(light, point))
      sh == scene_intersect(sph, point, light_dir)
  IN  IF Occluded(sh, point, light)
      THEN [light |-> light, skipped |-> TRUE, diffuse |-> 0, specular |-> 0]
      ELSE [light |-> light, skipped |-> FALSE,
            diffuse |-> Max(0, Dot(light_dir, N)),
            specular |->
              PowInt(Max(0, Dot(VNeg(reflect(VNeg(light_dir), N)), dir)),
                     material.specular_exponent)]

\* the sum a loop accumulates in a float, from 0
RECURSIVE SumOver(_, _, _)
SumOver(recs, field, i) ==
  IF i > Len(recs) THEN 0 ELSE recs[i][field] + SumOver(recs, field, i + 1)

\* the color cast_ray returns on a hit (lines 151-154)
Shade(material, diffuse, specular, reflect_color, refract_color) ==
  VAdd(VAdd(VScale(VScale(material.diffuse_color, diffuse),
                   material.albedo[1]),
            VScale(VScale(<<Scale, Scale, Scale>>, specular),
                   material.albedo[2])),
       VAdd(VScale(reflect_color, material.albedo[3]),
            VScale(refract_color, material.albedo[4])))

\* cast_ray(orig, dir, depth) over the spheres sph.  The value is the
\* activation's record: its arguments, what scene_intersect reported, the
\* activations it called (calls), what each light added (lights) and the
\* color it returns.
RECURSIVE cast_ray(_, _, _, _)
cast_ray(sph, orig, dir, depth) ==
  LET si == scene_intersect(sph, orig, dir)
  IN  IF Terminal(depth, si.hit)
      THEN [orig |-> orig, dir |-> dir, depth |-> depth, hit |-> si.hit,
            point |-> si.pt, N |-> si.N, material |-> si.material,
            calls |-> << >>, lights |-> << >>, color |-> Background]
      ELSE
        LET reflect_dir == Normalized(reflect(dir, si.N))
            refract_dir ==
              Normalized(refract(dir, si.N, si.material.refractive_index, Scale))
            reflected == cast_ray(sph, si.pt, reflect_dir, depth + 1)
            refracted == cast_ray(sph, si.pt, refract_dir, depth + 1)
            lit == [i \in 1..Len(lights) |->
                      LightStep(sph, si.pt, si.N, dir, si.material, lights[i])]
        IN  [orig |-> orig, dir |-> dir, depth |-> depth, hit |-> si.hit,
             point |-> si.pt, N |-> si.N, material |-> si.material,
             calls |-> <<reflected, refracted>>, lights |-> lit,
             color |-> Shade(si.material, SumOver(lit, "diffuse", 1),
                             SumOver(lit, "specular", 1),
                             reflected.color, refracted.color)]

\* ------------------------------------------------------------------------
\* print_colored_square, render's camera, rotate, animate
\* ------------------------------------------------------------------------

\* (int)(c * 5) (line 159)
Level(c) == Trunc(c * 5)

\* color_index of print_colored_square (lines 158-159)
ColorIndex(c) == 16 + 36 * Level(c[1]) + 6 * Level(c[2]) + Level(c[3])

\* 2.0 * tan(fov / 2.0) for fov = 1.05 (lines 166, 175)
TwoTanHalfFov == 46338

\* the direction of pixel (x, y)'s primary ray (lines 173-177)
PrimaryDir(x, y, width, height) ==
  Normalized(<<x * Scale + Milli(500) - (width * Scale) \div 2,
               -(y * Scale + Milli(500)) + (height * Scale) \div 2,
               -Div(height * Scale, TwoTanHalfFov)>>)

\* the color render stores for pixel (x, y) (lines 176-177)
PixelColor(sph, x, y, width, height) ==
  cast_ray(sph, <<0, 0, 0>>, PrimaryDir(x, y, width, height), 0).color

\* A variant of PixIndex: the row is not scaled by the width.
PixIndexNoStride(x, y, width) == y + x

\* int pix = y * width + x (line 172)
PixIndex(x, y, width) == y * width + x

\* cos and sin of the angles animate passes, in tenths of a degree
Cos(a) == CASE a = 0 -> Scale [] a = -8 -> 39996 [] a = 16 -> 39984

Sin(a) == CASE a = 0 -> 0 [] a = -8 -> -558 [] a = 16 -> 1117

\* rotate(point, pivot, angleX, angleY, angleZ) (lines 193-224)
rotate(point, pivot, angleX, angleY, angleZ) ==
  LET px0 == point[1] - pivot[1]
      py0 == point[2] - pivot[2]
      pz0 == point[3] - pivot[3]
      y1 == Mul(py0, Cos(angleX)) - Mul(pz0, Sin(angleX))
      z1 == Mul(py0, Sin(angleX)) + Mul(pz0, Cos(angleX))
      x2 == Mul(px0, Cos(angleY)) + Mul(z1, Sin(angleY))
      z2 == -Mul(px0, Sin(angleY)) + Mul(z1, Cos(angleY))
      x3 == Mul(x2, Cos(angleZ)) - Mul(y1, Sin(angleZ))
      y3 == Mul(x2, Sin(angleZ)) + Mul(y1, Cos(angleZ))
  IN  <<x3 + pivot[1], y3 + pivot[2], z2 + pivot[3]>>

\* the first statement of animate (line 227)
AnimateFirst(sph) ==
  [sph EXCEPT ![4].center =
     rotate(sph[4].center, <<Milli(1500), Milli(-2500), Milli(-20000)>>,
            0, -8, 0)]

\* the second statement of animate (line 228)
AnimateSecond(sph) ==
  [sph EXCEPT ![3].center =
     rotate(sph[3].center, <<Milli(1500), Milli(-2500), Milli(-15000)>>,
            0, 16, 0)]

animate(sph) == AnimateSecond(AnimateFirst(sph))

\* ------------------------------------------------------------------------
\* State
\* ------------------------------------------------------------------------

VARIABLES
  pc,           \* where main's thread is
  spheres,      \* Sphere spheres[]
  nAnimate,     \* calls of animate that returned
  nRender,      \* calls of render that returned
  framebuffer,  \* render's framebuffer
  nextIter,     \* per thread of the parallel pass: its next iteration
  busy,         \* per thread: the pixel whose cast_ray it is evaluating, or 0
  snap,         \* per thread: the sphere centers its cast_ray began on
  wrote,        \* the writes of the pass: <<x, y, cell>> per write
  dpos,         \* the display loop's position: cells read so far
  color_index,  \* the color pair print_colored_square used last, or 0
  tree,         \* the activation record of the last cast_ray evaluated
  ray,          \* the ray scene_intersect is answering
  scan,         \* scene_intersect's locals
  idx,          \* scene_intersect's position
  plane,        \* what the plane test of this ray did
  prev,         \* what the plane test of the ray before did
  rin,          \* the arguments of a call of refract
  rout          \* what the call returned

mainVars == <<pc, nRender, framebuffer, nextIter, busy, snap, wrote, dpos>>

scanVars == <<ray, scan, idx, plane, prev>>

refractVars == <<rin, rout>>

vars ==
  <<pc, spheres, nAnimate, nRender, framebuffer, nextIter, busy, snap, wrote,
    dpos, color_index, tree, ray, scan, idx, plane, prev, rin, rout>>

None == [none |-> TRUE]

\* int width = 80 (main)
Width == 80

\* int height = 40 (main)
Height == 40

\* the values of the variables a specification does not use
MainIdle ==
  /\ pc = "idle" /\ nRender = 0 /\ framebuffer = << >> /\ nextIter = << >>
  /\ busy = << >> /\ snap = << >> /\ wrote = {} /\ dpos = 0

ScanIdle ==
  /\ ray = None /\ scan = None /\ idx = 0 /\ plane = None /\ prev = None

RefractIdle == rin = None /\ rout = None

\* ------------------------------------------------------------------------
\* cast_ray on the primary rays of render(80, 40), frame after frame
\* ------------------------------------------------------------------------

\* Frames of the animation the primary rays are cast in.
MaxCastFrames == 2

\* Columns and rows of pixels sampled from the 80 x 40 of a frame.
SamplesX == 16

SamplesY == 8

\* Two pixels on the specular highlights of the ivory and the mirror sphere.
Highlights == {<<35, 17>>, <<57, 7>>}

\* The pixels whose primary ray is cast: a grid over the frame, and the
\* highlights.
Pixels ==
  {<<(i * Width) \div SamplesX, (j * Height) \div SamplesY>> :
     i \in 0..(SamplesX - 1), j \in 0..(SamplesY - 1)} \cup Highlights

CastInit ==
  /\ spheres = InitSpheres
  /\ nAnimate = 0
  /\ tree = None
  /\ color_index = 0
  /\ MainIdle /\ ScanIdle /\ RefractIdle

\* main calls animate() before a frame (line 247)
CastAnimate ==
  /\ tree = None
  /\ nAnimate < MaxCastFrames
  /\ spheres' = animate(spheres)
  /\ nAnimate' = nAnimate + 1
  /\ UNCHANGED <<tree, color_index, mainVars, scanVars, refractVars>>

\* render, called after animate (lines 247-248), casts pixel (x, y)'s
\* primary ray (lines 173-177)
CastPixel(x, y) ==
  /\ tree = None
  /\ nAnimate > 0
  /\ tree' = cast_ray(spheres, <<0, 0, 0>>, PrimaryDir(x, y, Width, Height), 0)
  /\ color_index' = 0
  /\ UNCHANGED <<spheres, nAnimate, mainVars, scanVars, refractVars>>

\* render stores the color cast_ray returned and passes it to
\* print_colored_square (lines 176, 184-185)
CastShow ==
  /\ tree # None
  /\ color_index' = ColorIndex(tree.color)
  /\ tree' = None
  /\ UNCHANGED <<spheres, nAnimate, mainVars, scanVars, refractVars>>

CastNext ==
  \/ CastAnimate
  \/ \E p \in Pixels : CastPixel(p[1], p[2])
  \/ CastShow

SpecCast == CastInit /\ [][CastNext]_vars

\* the activations of cast_ray under the activation t, t included
RECURSIVE Activations(_)
Activations(t) ==
  {t} \cup UNION {Activations(t.calls[i]) : i \in 1..Len(t.calls)}

\* how many times cast_ray was evaluated for the primary ray of t
RECURSIVE Evaluations(_)
Evaluations(t) ==
  IF Len(t.calls) = 0 THEN 1
  ELSE 1 + Evaluations(t.calls[1]) + Evaluations(t.calls[2])

\* C1 as stated: for every primary ray, cast_ray is evaluated at most 5
\* times in all, and every evaluation has its depth in 0..4.
C1_AtMostFiveEvaluations ==
  tree # None =>
    /\ Evaluations(tree) <= 5
    /\ \A n \in Activations(tree) : n.depth \in 0..4

\* C1 amended: for every primary ray the activations of cast_ray form a
\* binary tree of depths 0..5, so cast_ray is evaluated at most 63 times
\* (2^6 - 1), and an activation at depth 5 calls no further one.
C1_AtMostSixtyThreeEvaluations ==
  tree # None =>
    /\ Evaluations(tree) <= 63
    /\ \A n \in Activations(tree) :
         /\ n.depth \in 0..5
         /\ n.depth = 5 => n.calls = << >>

\* C1's case: a primary ray whose bounces reach depth 5 on a surface, with
\* more than 5 evaluations.
C1_Witness ==
  /\ tree # None
  /\ Evaluations(tree) > 5
  /\ \E n \in Activations(tree) : n.depth = 5 /\ n.hit

\* C3: an activation of cast_ray whose depth exceeds 4, or whose
\* scene_intersect reports no hit, returns the background color with no
\* recursive call and no light evaluated; every other activation makes
\* exactly two recursive calls, both at depth + 1.
C3_TerminalOrTwoCalls ==
  tree # None =>
    \A n \in Activations(tree) :
      IF n.depth > 4 \/ ~scene_intersect(spheres, n.orig, n.dir).hit
      THEN /\ n.color = <<Milli(200), Milli(700), Milli(800)>>
           /\ n.calls = << >>
           /\ n.lights = << >>
      ELSE /\ Len(n.calls) = 2
           /\ n.calls[1].depth = n.depth + 1
           /\ n.calls[2].depth = n.depth + 1

\* C3's cases: one primary ray with an activation past depth 4 that hit a
\* surface, an activation that missed, and an activation that recursed.
C3_Witness ==
  /\ tree # None
  /\ \E n \in Activations(tree) : n.depth > 4 /\ n.hit /\ n.calls = << >>
  /\ \E n \in Activations(tree) : n.depth <= 4 /\ ~n.hit /\ n.calls = << >>
  /\ \E n \in Activations(tree) : n.depth = 4 /\ Len(n.calls) = 2

\* the shadow query of an activation n for a light: scene_intersect from
\* the hit point toward the light
ShadowQuery(n, light) ==
  scene_intersect(spheres, n.point, Normalized(VSub(light, n.point)))

\* whether that query reports a hit strictly nearer than the light
InShadow(n, light) ==
  LET q == ShadowQuery(n, light)
  IN  q.hit /\ Norm(VSub(q.pt, n.point)) < Norm(VSub(light, n.point))

\* C10: in the lighting loop a light adds nothing to the diffuse and
\* specular intensities exactly when the shadow query, made with
\* scene_intersect from the hit point toward the light, reports a hit
\* strictly nearer than the light, whatever the occluder's material;
\* otherwise both intensities are accumulated.
C10_HardShadow ==
  tree # None =>
    \A n \in Activations(tree) : \A i \in 1..Len(n.lights) :
      LET l == n.lights[i]
          light_dir == Normalized(VSub(lights[i], n.point))
      IN  /\ l.skipped <=> InShadow(n, lights[i])
          /\ l.skipped => l.diffuse = 0 /\ l.specular = 0
          /\ ~l.skipped =>
               /\ l.diffuse = Max(0, Dot(light_dir, n.N))
               /\ l.specular =
                    PowInt(Max(0, Dot(VNeg(reflect(VNeg(light_dir), n.N)),
                                      n.dir)),
                           n.material.specular_exponent)

\* C10's cases: a light shadowed by the glass sphere, and a light that is
\* not shadowed and adds to the diffuse intensity.
C10_Witness ==
  /\ tree # None
  /\ \E n \in Activations(tree) : \E i \in 1..Len(n.lights) :
       /\ n.lights[i].skipped
       /\ ShadowQuery(n, lights[i]).material = glass
       /\ n.material # glass
  /\ \E n \in Activations(tree) : \E i \in 1..Len(n.lights) :
       ~n.lights[i].skipped /\ n.lights[i].diffuse > 0

\* for (int i = 16; i < 232; i++) init_pair(i, ...) (lines 240-242): the
\* color pairs main initialises
FirstPair == 16

LastPair == 231

\* C7 as stated: every color index print_colored_square computes is one of
\* the color pairs 16..231 that main initialised.
C7_IndexWithinPairs ==
  color_index # 0 => color_index \in FirstPair..LastPair

\* ------------------------------------------------------------------------
\* main's loop: animate, then render with its parallel pixel pass
\* ------------------------------------------------------------------------

\* Frames main's loop runs.
MaxFrames == 2

\* The width and height render is called with.
RenderW == 3

RenderH == 2

\* Threads of the OpenMP team.
NumThreads == 2

Cells == RenderW * RenderH

Threads == 1..NumThreads

\* The iterations of the collapsed loop nest that go to thread t under the
\* static schedule: contiguous chunks, the first (Cells % NumThreads)
\* threads taking one more.
ChunkStart(t) ==
  (t - 1) * (Cells \div NumThreads) + Min(t - 1, Cells % NumThreads)

ChunkEnd(t) == ChunkStart(t + 1)

Centers(sph) == [i \in 1..Len(sph) |-> sph[i].center]

Init ==
  /\ pc = "animate"
  /\ spheres = InitSpheres
  /\ nAnimate = 0
  /\ nRender = 0
  /\ framebuffer = << >>
  /\ nextIter = << >>
  /\ busy = << >>
  /\ snap = << >>
  /\ wrote = {}
  /\ dpos = 0
  /\ color_index = 0
  /\ tree = None
  /\ ScanIdle /\ RefractIdle

\* animate's first statement (line 227)
MainAnimateFirst ==
  /\ pc = "animate"
  /\ nAnimate < MaxFrames
  /\ spheres' = AnimateFirst(spheres)
  /\ pc' = "animate2"
  /\ UNCHANGED <<nAnimate, nRender, framebuffer, nextIter, busy, snap, wrote,
                 dpos, color_index, tree, scanVars, refractVars>>

\* animate's second statement, and its return (line 228)
MainAnimateSecond ==
  /\ pc = "animate2"
  /\ spheres' = AnimateSecond(spheres)
  /\ nAnimate' = nAnimate + 1
  /\ pc' = "render"
  /\ UNCHANGED <<nRender, framebuffer, nextIter, busy, snap, wrote, dpos,
                 color_index, tree, scanVars, refractVars>>

\* render allocates the framebuffer, its cells zero, and the team starts on
\* the loop nest (lines 167-169)
RenderBegin ==
  /\ pc = "render"
  /\ framebuffer' = [c \in 1..Cells |-> <<0, 0, 0>>]
  /\ nextIter' = [t \in Threads |-> ChunkStart(t)]
  /\ busy' = [t \in Threads |-> FALSE]
  /\ snap' = [t \in Threads |-> None]
  /\ wrote' = {}
  /\ pc' = "parallel"
  /\ UNCHANGED <<spheres, nAnimate, nRender, dpos, color_index, tree,
                 scanVars, refractVars>>

\* thread t enters cast_ray for its next iteration (line 177)
PixelStart(t) ==
  /\ nextIter # << >>
  /\ ~busy[t]
  /\ nextIter[t] < ChunkEnd(t)
  /\ busy' = [busy EXCEPT ![t] = TRUE]
  /\ snap' = [snap EXCEPT ![t] = Centers(spheres)]
  /\ UNCHANGED <<pc, spheres, nAnimate, nRender, framebuffer, nextIter, wrote,
                 dpos, color_index, tree, scanVars, refractVars>>

\* thread t's cast_ray returns and the color is stored (lines 172-177)
PixelFinish(t) ==
  /\ nextIter # << >>
  /\ busy[t]
  /\ LET x == nextIter[t] % RenderW
         y == nextIter[t] \div RenderW
         pix == PixIndex(x, y, RenderW)
     IN  /\ framebuffer' =
              [framebuffer EXCEPT
                 ![pix + 1] = PixelColor(spheres, x, y, RenderW, RenderH)]
         /\ wrote' = wrote \cup {<<x, y, pix>>}
  /\ nextIter' = [nextIter EXCEPT ![t] = nextIter[t] + 1]
  /\ busy' = [busy EXCEPT ![t] = FALSE]
  /\ UNCHANGED <<pc, spheres, nAnimate, nRender, snap, dpos, color_index,
                 tree, scanVars, refractVars>>

\* A variant of PassComplete: the loop nest ends without its barrier.
PassCompleteNoWait == TRUE

\* the barrier that ends the parallel loop nest (line 179): every thread has
\* finished its iterations
PassComplete ==
  \A t \in Threads : ~busy[t] /\ nextIter[t] = ChunkEnd(t)

\* main's thread leaves the parallel loop nest (line 179)
ParallelEnd ==
  /\ pc = "parallel"
  /\ PassComplete
  /\ pc' = "display"
  /\ dpos' = 0
  /\ UNCHANGED <<spheres, nAnimate, nRender, framebuffer, nextIter, busy,
                 snap, wrote, color_index, tree, scanVars, refractVars>>

\* one turn of the display loop (lines 183-185)
DisplayPixel ==
  /\ pc = "display"
  /\ dpos < Cells
  /\ color_index' = ColorIndex(framebuffer[dpos + 1])
  /\ dpos' = dpos + 1
  /\ UNCHANGED <<pc, spheres, nAnimate, nRender, framebuffer, nextIter, busy,
                 snap, wrote, tree, scanVars, refractVars>>

\* the display loop ends and render returns (lines 189-191)
DisplayEnd ==
  /\ pc = "display"
  /\ dpos = Cells
  /\ nRender' = nRender + 1
  /\ pc' = "pace"
  /\ UNCHANGED <<spheres, nAnimate, framebuffer, nextIter, busy, snap, wrote,
                 dpos, color_index, tree, scanVars, refractVars>>

\* main sleeps out the rest of the frame, if any (lines 249-254)
Pace ==
  /\ pc = "pace"
  /\ pc' = "animate"
  /\ UNCHANGED <<spheres, nAnimate, nRender, framebuffer, nextIter, busy,
                 snap, wrote, dpos, color_index, tree, scanVars, refractVars>>

Next ==
  \/ MainAnimateFirst
  \/ MainAnimateSecond
  \/ RenderBegin
  \/ \E t \in Threads : PixelStart(t)
  \/ \E t \in Threads : PixelFinish(t)
  \/ ParallelEnd
  \/ DisplayPixel
  \/ DisplayEnd
  \/ Pace

Spec == Init /\ [][Next]_vars

\* whether thread t has entered cast_ray in the current pass
Started(t) == busy[t] \/ nextIter[t] > ChunkStart(t)

\* C2: animate has fully returned before any pixel task of the frame's
\* pass starts and never runs while one is running, so every cast_ray of a
\* frame begins on the sphere centers the scene has throughout the pass;
\* and main calls animate, then render, once each per turn of its loop.
C2_AnimateBeforePass ==
  /\ pc \in {"animate", "animate2", "render"} =>
       \/ nextIter = << >>
       \/ \A t \in Threads : ~busy[t] /\ nextIter[t] = ChunkEnd(t)
  /\ nextIter # << >> =>
       \A t \in Threads :
         /\ busy[t] => pc = "parallel"
         /\ (pc = "parallel" /\ Started(t)) => snap[t] = Centers(spheres)
  /\ pc \in {"animate", "animate2", "pace"} => nAnimate = nRender
  /\ pc \in {"render", "parallel", "display"} => nAnimate = nRender + 1

\* C2's case: in the second frame, a thread inside cast_ray while another
\* has already finished a pixel.
C2_Witness ==
  /\ pc = "parallel"
  /\ nAnimate = 2
  /\ \E t \in Threads : busy[t]
  /\ \E t \in Threads : nextIter[t] > ChunkStart(t)

\* the writes of the pass are one per pixel task, each to cell y * width + x
WritesOwnCell ==
  /\ \A w \in wrote :
       /\ w[3] = w[2] * RenderW + w[1]
       /\ w[3] \in 0..(Cells - 1)
  /\ \A v, w \in wrote :
       v # w => v[3] # w[3] /\ <<v[1], v[2]>> # <<w[1], w[2]>>
  /\ nextIter # << >> =>
       Cardinality(wrote) =
         Cardinality({k \in 0..(Cells - 1) :
                        \E t \in Threads : ChunkStart(t) <= k /\ k < nextIter[t]})
  /\ framebuffer # << >> =>
       \A c \in 0..(Cells - 1) :
         (\A w \in wrote : w[3] # c) => framebuffer[c + 1] = <<0, 0, 0>>

\* the display loop runs only on a framebuffer whose every cell was written
ReadsAfterAllWritten ==
  pc = "display" => {w[3] : w \in wrote} = 0..(Cells - 1)

\* C9: in the parallel pass the task of pixel (x, y) writes exactly one
\* framebuffer cell, y * width + x; no two tasks write the same cell; no
\* task writes the spheres; and the display loop reads a cell only after
\* all width * height cells of the frame were written.
C9_OneCellPerPixel ==
  /\ [](WritesOwnCell /\ ReadsAfterAllWritten)
  /\ [][(wrote' # wrote /\ wrote' # {}) => spheres' = spheres]_vars

\* C9's case: a pass has written every cell and the display loop has read
\* them all.
C9_Witness ==
  /\ pc = "display"
  /\ dpos = Cells
  /\ Cardinality(wrote) = Cells
  /\ \E c \in 1..Cells : framebuffer[c] # <<0, 0, 0>>

\* ------------------------------------------------------------------------
\* scene_intersect, statement by statement, on the spheres of the first
\* frame
\* ------------------------------------------------------------------------

\* Columns and rows of the checkerboard that rays are sent to, in
\* thousandths.
PlaneXs == {-2600, -600, 0, 600, 2000, 2600}

PlaneZs == {-15000, -16000, -17000, -18500}

\* Rays that go straight down onto the checkerboard from below the spheres.
PlaneRays ==
  {[orig |-> <<Milli(x), Milli(-3750), Milli(z)>>, dir |-> <<0, -Scale, 0>>] :
     x \in PlaneXs, z \in PlaneZs}

\* Pixels whose primary rays are followed through scene_intersect.
ScanPixels ==
  {<<35, 17>>, <<57, 7>>, <<40, 30>>, <<20, 35>>, <<0, 0>>, <<30, 25>>,
   <<45, 20>>, <<36, 24>>, <<60, 33>>, <<40, 22>>, <<33, 19>>}

PrimaryRays ==
  {[orig |-> <<0, 0, 0>>, dir |-> PrimaryDir(p[1], p[2], Width, Height)] :
     p \in ScanPixels}

\* A ray that starts inside both the ivory and the red sphere and leaves
\* both through the circle on which their surfaces meet.
SeamRay ==
  [orig |-> <<Milli(-1200), Milli(-200), Milli(-16800)>>,
   dir |-> Normalized(<<7436, -38006, Scale>>)]

ScanRays == PlaneRays \cup PrimaryRays \cup {SeamRay}

\* main has called animate once (line 247) and render is casting rays
ScanInit ==
  /\ spheres = animate(InitSpheres)
  /\ nAnimate = 1
  /\ tree = None
  /\ color_index = 0
  /\ ray = None /\ scan = None /\ idx = 0 /\ plane = None /\ prev = None
  /\ MainIdle /\ RefractIdle

\* scene_intersect is entered with the ray r (lines 94-99)
ScanCall(r) ==
  /\ ray = None
  /\ ray' = r
  /\ scan' = ScanStart
  /\ idx' = 0
  /\ UNCHANGED <<plane, prev, spheres, nAnimate, tree, color_index, mainVars,
                 refractVars>>

\* the checkerboard test (lines 100-114)
ScanPlane ==
  /\ ray # None
  /\ idx = 0
  /\ scan' = PlaneTest(scan, ray.orig, ray.dir)
  /\ plane' = IF PlaneAccepted(scan, ray.orig, ray.dir)
              THEN [pt |-> scan'.pt, shade |-> scan'.material.diffuse_color]
              ELSE None
  /\ idx' = 1
  /\ UNCHANGED <<ray, prev, spheres, nAnimate, tree, color_index, mainVars,
                 refractVars>>

\* one turn of the loop over the spheres (lines 116-124)
ScanSphere ==
  /\ ray # None
  /\ idx \in 1..Len(spheres)
  /\ scan' = SphereTest(scan, ray.orig, ray.dir, spheres[idx])
  /\ idx' = idx + 1
  /\ UNCHANGED <<ray, plane, prev, spheres, nAnimate, tree, color_index,
                 mainVars, refractVars>>

\* scene_intersect returns (line 125); the plane hit of the ray, if it had
\* one, is kept for the comparison with the next ray's
ScanReturn ==
  /\ ray # None
  /\ idx = Len(spheres) + 1
  /\ ray' = None
  /\ scan' = None
  /\ idx' = 0
  /\ prev' = IF plane # None THEN plane ELSE prev
  /\ plane' = None
  /\ UNCHANGED <<spheres, nAnimate, tree, color_index, mainVars, refractVars>>

ScanNext ==
  \/ \E r \in ScanRays : ScanCall(r)
  \/ ScanPlane
  \/ ScanSphere
  \/ ScanReturn

SpecScan == ScanInit /\ [][ScanNext]_vars

\* floor(.5 * f)
FloorHalf(f) == f \div (2 * Scale)

\* ceil(.5 * f)
CeilHalf(f) == -((-f) \div (2 * Scale))

\* the half-unit cell of a coordinate: floor(f / .5)
HalfUnitCell(f) == f \div (Scale \div 2)

\* whether two plane hits are both there to compare
BothAccepted == plane # None /\ prev # None

\* C5 as stated: two accepted plane hit points get the same checkerboard
\* shade if and only if their floor(.5 x) + floor(.5 z) have the same
\* parity.
C5_ShadeByFloorParity ==
  BothAccepted =>
    ((plane.shade = prev.shade) <=>
       ((FloorHalf(plane.pt[1]) + FloorHalf(plane.pt[3])) % 2 =
        (FloorHalf(prev.pt[1]) + FloorHalf(prev.pt[3])) % 2))

\* C5 amended: two accepted plane hit points get the same checkerboard
\* shade if and only if their int(.5 x + 1000) + int(.5 z) have the same
\* parity, the conversions truncating toward zero: the column counts by
\* floor(.5 x), the row, z being negative, by ceil(.5 z).
C5_ShadeByTruncatedParity ==
  BothAccepted =>
    ((plane.shade = prev.shade) <=>
       ((FloorHalf(plane.pt[1]) + CeilHalf(plane.pt[3])) % 2 =
        (FloorHalf(prev.pt[1]) + CeilHalf(prev.pt[3])) % 2))

\* C5's case: two accepted hits in one column, one with .5 z whole and one
\* with .5 z fractional, whose shades differ.
C5_Witness ==
  /\ BothAccepted
  /\ plane.pt[1] = prev.pt[1]
  /\ plane.pt[3] % (2 * Scale) = 0
  /\ prev.pt[3] % (2 * Scale) # 0
  /\ plane.shade # prev.shade

\* C6 as stated: accepted plane hit points in adjacent half-unit cells along
\* x (same z) or along z (same x) get different shades; the points
\* (0, -15) and (0.6, -15) get different shades.
C6_HalfUnitCellsDiffer ==
  BothAccepted =>
    /\ (plane.pt[3] = prev.pt[3] /\
        Abs(HalfUnitCell(plane.pt[1]) - HalfUnitCell(prev.pt[1])) = 1) =>
         plane.shade # prev.shade
    /\ (plane.pt[1] = prev.pt[1] /\
        Abs(HalfUnitCell(plane.pt[3]) - HalfUnitCell(prev.pt[3])) = 1) =>
         plane.shade # prev.shade
    /\ ({<<plane.pt[1], plane.pt[3]>>, <<prev.pt[1], prev.pt[3]>>} =
        {<<0, Milli(-15000)>>, <<Milli(600), Milli(-15000)>>}) =>
         plane.shade # prev.shade

\* C6 amended: the cells of the checkerboard are two units wide.  Accepted
\* plane hit points in adjacent two-unit cells along x (same z) or along z
\* (same x) get different shades; the points (0, -15) and (0.6, -15) lie in
\* one cell and get the same shade.
C6_TwoUnitCellsDiffer ==
  BothAccepted =>
    /\ (plane.pt[3] = prev.pt[3] /\
        Abs(FloorHalf(plane.pt[1]) - FloorHalf(prev.pt[1])) = 1) =>
         plane.shade # prev.shade
    /\ (plane.pt[1] = prev.pt[1] /\
        Abs(CeilHalf(plane.pt[3]) - CeilHalf(prev.pt[3])) = 1) =>
         plane.shade # prev.shade
    /\ ({<<plane.pt[1], plane.pt[3]>>, <<prev.pt[1], prev.pt[3]>>} =
        {<<0, Milli(-15000)>>, <<Milli(600), Milli(-15000)>>}) =>
         plane.shade = prev.shade

\* C6's case: the accepted hits (0, -15) and (0.6, -15), one after the
\* other.
C6_Witness ==
  /\ BothAccepted
  /\ <<prev.pt[1], prev.pt[3]>> = <<0, Milli(-15000)>>
  /\ <<plane.pt[1], plane.pt[3]>> = <<Milli(600), Milli(-15000)>>

\* what ray_sphere_intersect reports for the ray and sphere i
Candidate(i) == ray_sphere_intersect(ray.orig, ray.dir, spheres[i])

\* a step of the loop over the spheres
SphereStep == idx \in 1..Len(spheres) /\ idx' = idx + 1

\* C8 as stated: a sphere replaces the hit recorded so far only if its
\* distance is strictly smaller than nearest_dist.
C8_ReplacedOnlyIfNearer ==
  [][(SphereStep /\ scan' # scan) =>
       scan'.nearest_dist < scan.nearest_dist]_vars

\* C8 amended: a sphere replaces the hit recorded so far if and only if it
\* is intersected at a distance not greater than nearest_dist; a sphere at
\* exactly nearest_dist overrides the point, normal and material recorded,
\* so ties are won by the primitive met last.
C8_ReplacedUnlessFarther ==
  [][SphereStep =>
       LET c == Candidate(idx)
       IN  IF c.intersection /\ c.d <= scan.nearest_dist
           THEN /\ scan'.nearest_dist = c.d
                /\ scan'.material = spheres[idx].material
                /\ scan'.pt = VAdd(ray.orig, VScale(ray.dir, c.d))
                /\ scan'.N = Normalized(VSub(scan'.pt, spheres[idx].center))
           ELSE scan' = scan]_vars

\* C8's case: the red sphere was met at exactly the distance of the ivory
\* sphere, met before it, and the hit recorded is the red sphere's.
C8_Witness ==
  /\ ray # None
  /\ idx = 4
  /\ Candidate(1).intersection
  /\ Candidate(3).intersection
  /\ Candidate(1).d = Candidate(3).d
  /\ scan.nearest_dist = Candidate(3).d
  /\ scan.material = red_rubber

\* ------------------------------------------------------------------------
\* refract on unit vectors
\* ------------------------------------------------------------------------

\* Components of the unit vectors refract is called with: 0, .6, .8, 1 and
\* their negatives.
UnitParts == {-Scale, -Milli(800), -Milli(600), 0, Milli(600), Milli(800), Scale}

\* The unit vectors with these components: the axes and the 3-4-5 triples.
UnitVectors ==
  {v \in UnitParts \X UnitParts \X UnitParts : Dot(v, v) = Scale}

\* The refractive indices of the materials (lines 44-49).
Indices == {ivory.refractive_index, glass.refractive_index}

RefractInit ==
  /\ spheres = InitSpheres
  /\ nAnimate = 0
  /\ tree = None
  /\ color_index = 0
  /\ rin = None /\ rout = None
  /\ MainIdle /\ ScanIdle

\* refract is called as cast_ray calls it (line 134): eta_i is left to its
\* default, 1
RefractCall(I, N, eta_t) ==
  /\ rin = None
  /\ rin' = [I |-> I, N |-> N, eta_t |-> eta_t, eta_i |-> Scale]
  /\ rout' = None
  /\ UNCHANGED <<spheres, nAnimate, tree, color_index, mainVars, scanVars>>

\* refract returns (lines 62-73)
RefractReturn ==
  /\ rin # None
  /\ rout = None
  /\ rout' = refract(rin.I, rin.N, rin.eta_t, rin.eta_i)
  /\ UNCHANGED <<rin, spheres, nAnimate, tree, color_index, mainVars,
                 scanVars>>

\* cast_ray takes the direction returned (line 134)
RefractTaken ==
  /\ rout # None
  /\ rin' = None
  /\ rout' = None
  /\ UNCHANGED <<spheres, nAnimate, tree, color_index, mainVars, scanVars>>

RefractNext ==
  \/ \E I \in UnitVectors, N \in UnitVectors, eta_t \in Indices :
       RefractCall(I, N, eta_t)
  \/ RefractReturn
  \/ RefractTaken

SpecRefract == RefractInit /\ [][RefractNext]_vars

\* whether the call recorded reached total internal reflection
TotalReflection ==
  /\ rin # None
  /\ rout # None
  /\ RefractK(rin.I, rin.N, rin.eta_t, rin.eta_i) < 0

\* C4 as stated: when refract reaches total internal reflection, it returns
\* the incident direction I unmodified.
C4_ReturnsIncident == TotalReflection => rout = rin.I

\* C4 amended: when refract reaches total internal reflection, it returns
\* the fixed direction (1, 0, 0), whatever the incident direction.
C4_ReturnsFixedDirection == TotalReflection => rout = <<Scale, 0, 0>>

\* C4's case: a call that reached total internal reflection and did not
\* return its incident direction.
C4_Witness == TotalReflection /\ rout # rin.I

=============================================================================
